---- MODULE Spec2Model ----
(***************************************************************************)
(* i3lock.c: the lock state machine of main() -- option parsing outcome,   *)
(* session and display set-up, the two bounded grab loops, the event loop  *)
(* that collects the password in passwd[]/len and calls pam_authenticate,  *)
(* and the teardown that follows the loop.                                 *)
(***************************************************************************)
EXTENDS Integers, Sequences, FiniteSets, TLC

\* ---------------------------------------------------------------- bounds
\* sizeof passwd.  The source declares passwd[256]; the model is written
\* against this name only and is checked with a small backing store.
PasswdSize == 4
\* Initial value of the grab loops' countdown.  The source uses 1000.
GrabAttempts == 2
\* Largest number of bytes XLookupString returns for one key event
\* (the source passes a 32 byte buffer).
MaxNum == 2
\* Largest number of pam_authenticate calls followed in one run.
MaxSubmits == 2
\* Longest argument of -c that is tried.
MaxColorLen == 7
\* Largest number of events read with len = 0 that are followed in a run
\* started with -d.
MaxDpms == 2
MaxMsg == 2

\* ------------------------------------------------- X11 and PAM constants
PAM_SUCCESS == 0
PAM_SYSTEM_ERR == 4
PAM_AUTH_ERR == 7
PAM_PROMPT_ECHO_OFF == 1
PAM_PROMPT_ECHO_ON == 2
PAM_TEXT_INFO == 4
XK_BackSpace == 65288
XK_Return == 65293
XK_Escape == 65307
XK_Select == 65376
XK_Break == 65387
XK_KP_Space == 65408
XK_KP_Enter == 65421
XK_KP_F1 == 65425
XK_KP_F4 == 65428
XK_KP_Left == 65430
XK_KP_Add == 65451
XK_KP_0 == 65456
XK_KP_5 == 65461
XK_KP_9 == 65465
XK_KP_Equal == 65469
XK_F1 == 65470
XK_F35 == 65504
XK_Shift_L == 65505
XK_0 == 48
XK_5 == 53
XK_a == 97
XK_eacute == 233
XK_PrivateKeypadFirst == 285212672
XK_PrivateKeypadLast == 285278207

VARIABLES
    pc,                 \* position of main()
    running,            \* bool running
    len,                \* unsigned int len
    passwd,             \* static char passwd[256], indexed from 0
    ev,                 \* the event last returned by XNextEvent
    ret,                \* int ret
    dont_fork,          \* bool dont_fork
    pointer_acquired,   \* the pointer grab is held by this client
    keyboard_acquired,  \* the keyboard grab is held by this client
    mapped,             \* the lock window is mapped
    session_open,       \* a PAM handle obtained by pam_start is open
    display_open,       \* the display connection is open
    exitCode,           \* exit status of the process, -1 while it runs
    exitCause,          \* which exit of main() ended the process
    ptrAttempts,        \* calls of XGrabPointer so far
    ptrSleeps,          \* usleep calls of the pointer loop so far
    kbdAttempts,        \* calls of XGrabKeyboard so far
    kbdSleeps,          \* usleep calls of the keyboard loop so far
    grabResult,         \* how far grab acquisition has come
    authCalls,          \* calls of pam_authenticate so far
    enterNonEmpty,      \* Enter key presses delivered while len > 0
    lastAuth,           \* outcome of the latest pam_authenticate call
    submitted,          \* the string conv_callback copies for the backend
    typed,              \* the text entered since the last reset
    argv,               \* the command line: one option, or none
    env_USER,           \* whether USER is set in the environment
    color,              \* char color[7]
    dpms,               \* bool dpms
    capable,            \* the latest answer of DPMSCapable
    dpmsQueries,        \* calls of DPMSCapable so far
    dpmsCalls,          \* calls of DPMSForceLevel so far
    conv_pc,            \* where a call of conv_callback stands
    num_msg,            \* int num_msg of conv_callback
    msg,                \* the msg_style of msg[0..num_msg-1]
    resp,               \* the array *resp that calloc returned
    conv_c,             \* int c of the for loop of conv_callback
    conv_ret,           \* what conv_callback returned, -1 before it has
    stray               \* writes of conv_callback that went outside *resp

vars == <<pc, running, len, passwd, ev, ret, dont_fork, pointer_acquired,
          keyboard_acquired, mapped, session_open, display_open, exitCode,
          exitCause, ptrAttempts, ptrSleeps, kbdAttempts, kbdSleeps,
          grabResult, authCalls, enterNonEmpty, lastAuth, submitted, typed,
          argv, env_USER, color, dpms, capable, dpmsQueries, dpmsCalls,
          conv_pc, num_msg, msg, resp, conv_c, conv_ret, stray>>

\* The command line, the environment and what option parsing sets from them.
cfgVars == <<argv, env_USER, color, dpms>>

\* The display power management calls.
dpmsVars == <<capable, dpmsQueries, dpmsCalls>>

\* The call of conv_callback.
convVars == <<conv_pc, num_msg, msg, resp, conv_c, conv_ret, stray>>

\* main()'s own variables and what is recorded about its calls.
mainVars == <<pc, running, len, passwd, ev, ret, dont_fork, pointer_acquired,
              keyboard_acquired, mapped, session_open, display_open,
              exitCode, exitCause, ptrAttempts, ptrSleeps, kbdAttempts,
              kbdSleeps, grabResult, authCalls, enterNonEmpty, lastAuth,
              submitted, typed>>

\* --------------------------------------------------------------- events
NoEvent == [type |-> "None", ksym |-> 0, chars |-> <<>>]

\* The bytes XLookupString stores for a key that yields n > 1 bytes.
MultiChars(n) == [i \in 1..n |-> IF i = 1 THEN 97 ELSE 53]

Key(k, s) == [type |-> "KeyPress", ksym |-> k, chars |-> s]

KeyEvents ==
    { Key(XK_Return, <<13>>), Key(XK_KP_Enter, <<13>>),
      Key(XK_Escape, <<27>>), Key(XK_BackSpace, <<8>>),
      Key(XK_F1, <<>>), Key(XK_KP_Left, <<>>), Key(XK_KP_F1, <<>>),
      Key(XK_Select, <<>>), Key(XK_PrivateKeypadFirst, <<>>),
      Key(XK_Shift_L, <<>>),
      Key(XK_KP_Add, <<43>>),
      Key(XK_KP_5, <<53>>), Key(XK_5, <<53>>),
      Key(XK_a, <<97>>), Key(XK_a, <<0>>),
      Key(XK_eacute, <<233>>) }
    \cup { Key(XK_a, MultiChars(n)) : n \in 2..MaxNum }

Events == KeyEvents \cup { [type |-> "Expose", ksym |-> 0, chars |-> <<>>] }

\* ---------------------------------------------------------- command lines
NUL == "NUL"

HexDigits ==
    {"0", "1", "2", "3", "4", "5", "6", "7", "8", "9",
     "a", "b", "c", "d", "e", "f", "A", "B", "C", "D", "E", "F"}

\* The arguments of -c that are tried: every string of '#', a hexadecimal
\* digit and another character, up to MaxColorLen long.
ColorArgs == UNION { [1..n -> {"#", "1", "z"}] : n \in 0..MaxColorLen }

Cmd(o, a) == [opt |-> o, arg |-> a]

\* Command lines of one option: -v, -n, -d, an option getopt_long does not
\* know, -c with an argument, or no option at all.
ArgvWith(opts, colors) ==
    { Cmd(o, <<>>) : o \in opts } \cup { Cmd("c", a) : a \in colors }

\* The command lines the lock is followed with through the event loop: -c
\* only with an argument that is turned down, since the colour has no part
\* in the loop, and -d apart, in DpmsArgv.
MainArgv ==
    ArgvWith({"none", "v", "n", "unknown"}, {<<"z", "z", "z", "z", "z", "z">>})

DpmsArgv == ArgvWith({"d"}, {})

AllArgv == ArgvWith({"none", "v", "n", "d", "unknown"}, ColorArgs)

\* Lines 231-234: arg = optarg, skipping a leading '#'.
SkipHash(a) == IF Len(a) > 0 /\ a[1] = "#" THEN Tail(a) ELSE a

\* What sscanf's %06[0-9a-fA-F] stores: the longest run of hexadecimal
\* digits at the start of a, six at most.
RECURSIVE ScanHex(_, _)
ScanHex(a, w) ==
    IF w = 0 \/ Len(a) = 0 \/ ~(a[1] \in HexDigits) THEN <<>>
    ELSE <<a[1]>> \o ScanHex(Tail(a), w - 1)

\* The value sscanf returns: 1 when the conversion stored something.
SscanfResult(a) == IF Len(ScanHex(a, 6)) > 0 THEN 1 ELSE 0

\* Line 236: the test that ends in errx(1, "color is invalid ...").
ColorRejected(a) == Len(a) # 6 \/ SscanfResult(a) # 1

\* color after sscanf stored the digits it matched and a terminator.
StoreColor(old, a) ==
    LET h == ScanHex(a, 6) IN
    [i \in 1..7 |-> IF i <= Len(h) THEN h[i]
                     ELSE IF i = Len(h) + 1 THEN NUL
                     ELSE old[i]]

\* ------------------------------------------- keysym classification (Xutil.h)
IsKeypadKey(k) == k >= XK_KP_Space /\ k <= XK_KP_Equal

IsPrivateKeypadKey(k) == k >= XK_PrivateKeypadFirst /\ k <= XK_PrivateKeypadLast

IsPFKey(k) == k >= XK_KP_F1 /\ k <= XK_KP_F4

IsFunctionKey(k) == k >= XK_F1 /\ k <= XK_F35

IsMiscFunctionKey(k) == k >= XK_Select /\ k <= XK_Break

\* The outcomes of iscntrl((int) buf[0]) in the "C" locale.  A byte above 127
\* is a negative int where char is signed, which iscntrl is not defined for:
\* either answer can come back.
IsCntrl(c) ==
    IF c < 32 \/ c = 127 THEN {TRUE}
    ELSE IF c < 128 THEN {FALSE}
    ELSE BOOLEAN

\* ------------------------------------------------------ event loop helpers
\* Faulty variant: keypad digits keep their keypad keysym.
NormalizeKeysym_NoDigits(k) ==
    IF IsKeypadKey(k) /\ k = XK_KP_Enter THEN XK_Return ELSE k

\* Lines 356-361: keypad Enter and keypad digits are renamed.
NormalizeKeysym(k) ==
    IF IsKeypadKey(k)
    THEN IF k = XK_KP_Enter THEN XK_Return
         ELSE IF k >= XK_KP_0 /\ k <= XK_KP_9 THEN (k - XK_KP_0) + XK_0
         ELSE k
    ELSE k

\* Faulty variant: keypad keys are not skipped.
IgnoredKey_NoKeypad(k) ==
    \/ IsFunctionKey(k)
    \/ IsMiscFunctionKey(k)
    \/ IsPrivateKeypadKey(k)

\* Lines 362-367: the keys the loop skips.
IgnoredKey(k) ==
    \/ IsFunctionKey(k)
    \/ IsKeypadKey(k)
    \/ IsMiscFunctionKey(k)
    \/ IsPFKey(k)
    \/ IsPrivateKeypadKey(k)

\* Faulty variant: no terminator is written.
Terminate_None(p, l) == p

\* Line 370: passwd[len] = 0.
Terminate(p, l) == [p EXCEPT ![l] = 0]

\* Faulty variant: an empty password is not skipped.
SkipEmpty_Never(l) == FALSE

\* Line 372: the test that skips an empty password.
SkipEmpty(l) == l = 0

\* Faulty variant: any answer of pam_authenticate unlocks.
RunningAfterAuth_UnlockAlways(run, r) == FALSE

\* Lines 374-375: running after pam_authenticate returned r.
RunningAfterAuth(run, r) == IF r = PAM_SUCCESS THEN FALSE ELSE run

\* Faulty variant: len is left as it is.
ResetLen_Keep(l) == l

\* Line 381 and line 384: len = 0; passwd itself is not written.
ResetLen(l) == 0

\* Line 387-388: if (len > 0) len--.
BackSpaceLen(l) == IF l > 0 THEN l - 1 ELSE l

\* Faulty variant: the room test lets the bytes fill passwd to its end.
Fits_AllowFull(l, num) == l + num <= PasswdSize

\* Faulty variant: the room test leaves num out.
Fits_IgnoreNum(l, num) == l < PasswdSize

\* Line 391: the room test of the default case.
Fits(l, num) == l + num < PasswdSize

\* Line 392: memcpy(passwd + len, buf, num).
Memcpy(p, l, buf) ==
    [i \in DOMAIN p |->
        IF i >= l /\ i < l + Len(buf) THEN buf[i - l + 1] ELSE p[i]]

\* strdup(passwd) in conv_callback (line 149): the bytes before the first 0.
RECURSIVE StrFrom(_, _)
StrFrom(p, i) ==
    IF i >= PasswdSize \/ p[i] = 0 THEN <<>> ELSE <<p[i]>> \o StrFrom(p, i + 1)

StrDup(p) == StrFrom(p, 0)

\* ------------------------------------------------------------ grab helpers
\* Faulty variant: the countdown starts one too high.
GrabLoopStart_OneMore == GrabAttempts + 1

\* Line 326 and 333: for (len = 1000; ...).
GrabLoopStart == GrabAttempts

\* Faulty variant: the pointer grab is left as it is.
XUngrabPointer_Keep(held) == held

\* Line 399: XUngrabPointer; the server releases the pointer if this client
\* has it grabbed and does nothing otherwise.
XUngrabPointer(held) == FALSE

\* Line 330 and 337: usleep(1000) after a failed attempt.
SleepAfterFail(n) == n + 1

\* Faulty variant: the outcome of the pointer loop is not looked at.
RunningAfterPointer_IgnoreLen(r, l) == r

\* Line 332: running = running && (len > 0).
RunningAfterPointer(r, l) == r /\ (l > 0)

\* Faulty variant: the outcome of the keyboard loop is not looked at.
RunningAfterKeyboard_IgnoreLen(l) == TRUE

\* Line 339: running = (len > 0).
RunningAfterKeyboard(l) == l > 0

\* Faulty variant: the buffer length is not looked at.
DpmsAsked_AnyLen(l, d) == d

\* Line 346: len == 0 && dpms, the part of the test that lets DPMSCapable
\* be asked.
DpmsAsked(l, d) == l = 0 /\ d

\* Line 345: the loop condition; xnext is the value XNextEvent returned.
LoopCond(r, xnext) == r /\ xnext = 0

\* ------------------------------------------------------------------ Init
\* An array of no elements: no allocation.
NoArray == [i \in {} |-> 0]

\* No call of conv_callback is going on.
ConvIdle ==
    /\ conv_pc = "idle"
    /\ num_msg = 0
    /\ msg = NoArray
    /\ resp = NoArray
    /\ conv_c = 0
    /\ conv_ret = -1
    /\ stray = 0

InitWith(args) ==
    /\ argv \in args
    /\ env_USER \in BOOLEAN
    /\ color = <<"f", "f", "f", "f", "f", "f", NUL>>
    /\ dpms = FALSE
    /\ capable = FALSE
    /\ dpmsQueries = 0
    /\ dpmsCalls = 0
    /\ pc = "getopt"
    /\ running = TRUE
    /\ len = 0
    /\ passwd = [i \in 0..(PasswdSize - 1) |-> 0]
    /\ ev = NoEvent
    /\ ret = 0
    /\ dont_fork = FALSE
    /\ pointer_acquired = FALSE
    /\ keyboard_acquired = FALSE
    /\ mapped = FALSE
    /\ session_open = FALSE
    /\ display_open = FALSE
    /\ exitCode = -1
    /\ exitCause = "none"
    /\ ptrAttempts = 0
    /\ ptrSleeps = 0
    /\ kbdAttempts = 0
    /\ kbdSleeps = 0
    /\ grabResult = "pending"
    /\ authCalls = 0
    /\ enterNonEmpty = 0
    /\ lastAuth = "none"
    /\ submitted = <<>>
    /\ typed = <<>>
    /\ ConvIdle

Init == InitWith(MainArgv)

\* The process ends with status code at the exit named cause.
Exit(code, cause) ==
    /\ pc' = "exited"
    /\ exitCode' = code
    /\ exitCause' = cause

\* ----------------------------------------------------------------- startup
\* Lines 211-260: the getopt_long loop over the command line.
ParseOptions ==
    /\ pc = "getopt"
    /\ \/ /\ argv.opt = "v"
          /\ Exit(0, "version")
          /\ UNCHANGED <<dont_fork, dpms, color>>
       \/ /\ argv.opt = "unknown"
          /\ Exit(1, "config")
          /\ UNCHANGED <<dont_fork, dpms, color>>
       \/ /\ argv.opt = "c"
          /\ LET arg == SkipHash(argv.arg) IN
               IF ColorRejected(arg)
               THEN /\ Exit(1, "config")
                    /\ color' = IF Len(arg) # 6 THEN color
                                ELSE StoreColor(color, arg)
               ELSE /\ color' = StoreColor(color, arg)
                    /\ pc' = "getenv"
                    /\ UNCHANGED <<exitCode, exitCause>>
          /\ UNCHANGED <<dont_fork, dpms>>
       \/ /\ argv.opt \in {"none", "n", "d"}
          /\ dont_fork' = (argv.opt = "n")
          /\ dpms' = (argv.opt = "d")
          /\ pc' = "getenv"
          /\ UNCHANGED <<exitCode, exitCause, color>>
    /\ UNCHANGED <<argv, env_USER, dpmsVars, convVars>>
    /\ UNCHANGED <<running, len, passwd, ev, ret, pointer_acquired,
                   keyboard_acquired, mapped, session_open, display_open,
                   ptrAttempts, ptrSleeps, kbdAttempts, kbdSleeps, grabResult,
                   authCalls, enterNonEmpty, lastAuth, submitted, typed>>

\* Lines 262-263: getenv("USER").
GetUser ==
    /\ UNCHANGED <<cfgVars, dpmsVars, convVars>>
    /\ pc = "getenv"
    /\ IF env_USER
       THEN pc' = "pam_start" /\ UNCHANGED <<exitCode, exitCause>>
       ELSE Exit(1, "env")
    /\ UNCHANGED <<running, len, passwd, ev, ret, dont_fork, pointer_acquired,
                   keyboard_acquired, mapped, session_open, display_open,
                   ptrAttempts, ptrSleeps, kbdAttempts, kbdSleeps, grabResult, authCalls,
                   enterNonEmpty, lastAuth, submitted, typed>>

\* Lines 265-267: pam_start.
PamStart ==
    /\ UNCHANGED <<cfgVars, dpmsVars, convVars>>
    /\ pc = "pam_start"
    /\ \E r \in {PAM_SUCCESS, PAM_SYSTEM_ERR} :
         /\ ret' = r
         /\ IF r = PAM_SUCCESS
            THEN /\ session_open' = TRUE
                 /\ pc' = "open_display"
                 /\ UNCHANGED <<exitCode, exitCause>>
            ELSE /\ Exit(1, "pam_start")
                 /\ UNCHANGED session_open
    /\ UNCHANGED <<running, len, passwd, ev, dont_fork, pointer_acquired,
                   keyboard_acquired, mapped, display_open,
                   ptrAttempts, ptrSleeps, kbdAttempts, kbdSleeps, grabResult, authCalls,
                   enterNonEmpty, lastAuth, submitted, typed>>

\* Lines 269-272: XOpenDisplay.
OpenDisplay ==
    /\ UNCHANGED <<cfgVars, dpmsVars, convVars>>
    /\ pc = "open_display"
    /\ \E ok \in BOOLEAN :
         IF ok
         THEN /\ display_open' = TRUE
              /\ pc' = "fork"
              /\ UNCHANGED <<exitCode, exitCause>>
         ELSE /\ Exit(1, "display")
              /\ UNCHANGED display_open
    /\ UNCHANGED <<running, len, passwd, ev, ret, dont_fork, pointer_acquired,
                   keyboard_acquired, mapped, session_open,
                   ptrAttempts, ptrSleeps, kbdAttempts, kbdSleeps, grabResult, authCalls,
                   enterNonEmpty, lastAuth, submitted, typed>>

\* Lines 274-277: the process that fork() answers non-zero returns 0.
Fork ==
    /\ UNCHANGED <<cfgVars, dpmsVars, convVars>>
    /\ pc = "fork"
    /\ \/ /\ dont_fork
          /\ pc' = "init"
          /\ UNCHANGED <<exitCode, exitCause>>
       \/ /\ ~dont_fork
          /\ \E child \in BOOLEAN :
               IF child
               THEN pc' = "init" /\ UNCHANGED <<exitCode, exitCause>>
               ELSE Exit(0, "fork_parent")
    /\ UNCHANGED <<running, len, passwd, ev, ret, dont_fork, pointer_acquired,
                   keyboard_acquired, mapped, session_open, display_open,
                   ptrAttempts, ptrSleeps, kbdAttempts, kbdSleeps, grabResult, authCalls,
                   enterNonEmpty, lastAuth, submitted, typed>>

\* Lines 280-297: the window is created and mapped.
InitWindow ==
    /\ UNCHANGED <<cfgVars, dpmsVars, convVars>>
    /\ pc = "init"
    /\ mapped' = TRUE
    /\ pc' = "xpm"
    /\ UNCHANGED <<running, len, passwd, ev, ret, dont_fork, pointer_acquired,
                   keyboard_acquired, session_open, display_open, exitCode,
                   exitCause, ptrAttempts, ptrSleeps, kbdAttempts, kbdSleeps, grabResult,
                   authCalls, enterNonEmpty, lastAuth, submitted, typed>>

\* Lines 299-324: the background image; a read error returns 1, which ends
\* the process and with it the display connection and the window.
LoadImage ==
    /\ UNCHANGED <<cfgVars, dpmsVars, convVars>>
    /\ pc = "xpm"
    /\ \E o \in {"none", "ok", "error"} :
         IF o = "error"
         THEN /\ Exit(1, "xpm")
              /\ mapped' = FALSE
              /\ display_open' = FALSE
              /\ UNCHANGED len
         ELSE /\ pc' = "grab_pointer"
              /\ len' = GrabLoopStart
              /\ UNCHANGED <<exitCode, exitCause, mapped, display_open>>
    /\ UNCHANGED <<running, passwd, ev, ret, dont_fork, pointer_acquired,
                   keyboard_acquired, session_open,
                   ptrAttempts, ptrSleeps, kbdAttempts, kbdSleeps, grabResult, authCalls,
                   enterNonEmpty, lastAuth, submitted, typed>>

\* ------------------------------------------------------------------ grabs
\* Lines 326-331: one turn of the pointer loop.
GrabPointer ==
    /\ UNCHANGED <<cfgVars, dpmsVars, convVars>>
    /\ pc = "grab_pointer"
    /\ len > 0
    /\ ptrAttempts' = ptrAttempts + 1
    /\ \E ok \in BOOLEAN :
         IF ok
         THEN /\ pointer_acquired' = TRUE
              /\ pc' = "after_pointer"
              /\ grabResult' = "pointer_ok"
              /\ UNCHANGED <<len, ptrSleeps>>
         ELSE /\ ptrSleeps' = SleepAfterFail(ptrSleeps)
              /\ len' = len - 1
              /\ pc' = IF len - 1 = 0 THEN "after_pointer" ELSE "grab_pointer"
              /\ grabResult' =
                    IF len - 1 = 0 THEN "pointer_exhausted" ELSE grabResult
              /\ UNCHANGED pointer_acquired
    /\ UNCHANGED <<running, passwd, ev, ret, dont_fork, keyboard_acquired,
                   mapped, session_open, display_open, exitCode, exitCause,
                   kbdAttempts, kbdSleeps, authCalls, enterNonEmpty, lastAuth,
                   submitted, typed>>

\* Lines 332-333 and, when the pointer loop ran out, lines 341-342.
AfterPointer ==
    /\ UNCHANGED <<cfgVars, dpmsVars, convVars>>
    /\ pc = "after_pointer"
    /\ running' = RunningAfterPointer(running, len)
    /\ IF running'
       THEN len' = GrabLoopStart /\ pc' = "grab_keyboard"
       ELSE len' = 0 /\ pc' = "loop"
    /\ UNCHANGED <<passwd, ev, ret, dont_fork, pointer_acquired,
                   keyboard_acquired, mapped, session_open, display_open,
                   exitCode, exitCause, ptrAttempts, ptrSleeps, kbdAttempts,
                   kbdSleeps, grabResult, authCalls, enterNonEmpty, lastAuth, submitted,
                   typed>>

\* Lines 333-338: one turn of the keyboard loop.
GrabKeyboard ==
    /\ UNCHANGED <<cfgVars, dpmsVars, convVars>>
    /\ pc = "grab_keyboard"
    /\ len > 0
    /\ kbdAttempts' = kbdAttempts + 1
    /\ \E ok \in BOOLEAN :
         IF ok
         THEN /\ keyboard_acquired' = TRUE
              /\ pc' = "after_keyboard"
              /\ grabResult' = "both_ok"
              /\ UNCHANGED <<len, kbdSleeps>>
         ELSE /\ kbdSleeps' = SleepAfterFail(kbdSleeps)
              /\ len' = len - 1
              /\ pc' = IF len - 1 = 0 THEN "after_keyboard" ELSE "grab_keyboard"
              /\ grabResult' =
                    IF len - 1 = 0 THEN "keyboard_exhausted" ELSE grabResult
              /\ UNCHANGED keyboard_acquired
    /\ UNCHANGED <<running, passwd, ev, ret, dont_fork, pointer_acquired,
                   mapped, session_open, display_open, exitCode, exitCause,
                   ptrAttempts, ptrSleeps, authCalls, enterNonEmpty, lastAuth,
                   submitted, typed>>

\* Lines 339-342.
AfterKeyboard ==
    /\ UNCHANGED <<cfgVars, dpmsVars, convVars>>
    /\ pc = "after_keyboard"
    /\ running' = RunningAfterKeyboard(len)
    /\ len' = 0
    /\ pc' = "loop"
    /\ UNCHANGED <<passwd, ev, ret, dont_fork, pointer_acquired,
                   keyboard_acquired, mapped, session_open, display_open,
                   exitCode, exitCause, ptrAttempts, ptrSleeps, kbdAttempts,
                   kbdSleeps, grabResult, authCalls, enterNonEmpty, lastAuth, submitted,
                   typed>>

\* ------------------------------------------------------------- event loop
\* An Enter key press as the user makes it: the main or the keypad key.
IsEnterPress(e) == e.type = "KeyPress" /\ e.ksym \in {XK_Return, XK_KP_Enter}

\* The text a user has entered after event e, given the text before it and
\* whether the loop took the event's characters.
Replay(t, e, taken) ==
    IF e.type # "KeyPress" THEN t
    ELSE IF e.ksym = XK_Escape THEN <<>>
    ELSE IF e.ksym = XK_BackSpace
         THEN (IF Len(t) > 0 THEN SubSeq(t, 1, Len(t) - 1) ELSE t)
    ELSE IF taken THEN t \o e.chars
    ELSE t

\* Lines 369-373: case XK_Return up to the call of pam_authenticate, where
\* conv_callback copies passwd for the backend.
KeyReturn ==
    /\ passwd' = Terminate(passwd, len)
    /\ IF SkipEmpty(len)
       THEN UNCHANGED <<pc, authCalls, submitted>>
       ELSE /\ pc' = "auth"
            /\ authCalls' = authCalls + 1
            /\ submitted' = StrDup(passwd')
    /\ UNCHANGED len

\* Lines 383-385: case XK_Escape.
KeyEscape ==
    /\ len' = ResetLen(len)
    /\ UNCHANGED <<pc, passwd, authCalls, submitted>>

\* Lines 386-389: case XK_BackSpace.
KeyBackSpace ==
    /\ len' = BackSpaceLen(len)
    /\ UNCHANGED <<pc, passwd, authCalls, submitted>>

\* Lines 390-395: the default case, for the num bytes in buf.
KeyDefault(buf) ==
    /\ \E cntrl \in (IF Len(buf) > 0 THEN IsCntrl(buf[1]) ELSE {TRUE}) :
         IF Len(buf) # 0 /\ ~cntrl /\ Fits(len, Len(buf))
         THEN /\ passwd' = Memcpy(passwd, len, buf)
              /\ len' = len + Len(buf)
         ELSE UNCHANGED <<passwd, len>>
    /\ UNCHANGED <<pc, authCalls, submitted>>

\* Lines 346-395: the body of the loop on event e: what it does to
\* everything but ev.  The message and bell of lines 377-379 change none of
\* the variables.
LoopBody(e) ==
    /\ IF DpmsAsked(len, dpms)
       THEN \E c \in (IF dpmsQueries = 0 THEN BOOLEAN ELSE {capable}) :
              /\ capable' = c
              /\ dpmsQueries' = dpmsQueries + 1
              /\ dpmsCalls' = IF c THEN dpmsCalls + 1 ELSE dpmsCalls
       ELSE UNCHANGED dpmsVars
    /\ UNCHANGED <<cfgVars, convVars>>
    /\ enterNonEmpty' =
         IF IsEnterPress(e) /\ len > 0 THEN enterNonEmpty + 1 ELSE enterNonEmpty
    /\ IF e.type # "KeyPress"
       THEN UNCHANGED <<pc, passwd, len, authCalls, submitted>>
       ELSE LET ksym == NormalizeKeysym(e.ksym) IN
            IF IgnoredKey(ksym)
            THEN UNCHANGED <<pc, passwd, len, authCalls, submitted>>
            ELSE IF ksym = XK_Return THEN KeyReturn
            ELSE IF ksym = XK_Escape THEN KeyEscape
            ELSE IF ksym = XK_BackSpace THEN KeyBackSpace
            ELSE KeyDefault(e.chars)
    /\ typed' = Replay(typed, e, len' > len)
    /\ UNCHANGED <<running, ret, dont_fork, pointer_acquired,
                   keyboard_acquired, mapped, session_open, display_open,
                   exitCode, exitCause, ptrAttempts, ptrSleeps, kbdAttempts,
                   kbdSleeps, grabResult, lastAuth>>

\* Lines 345-396: XNextEvent returned 0 with event e, and the body of the
\* loop runs on it, up to the next XNextEvent or into pam_authenticate.
HandleEvent(e) ==
    /\ pc = "loop"
    /\ LoopCond(running, 0)
    /\ (IsEnterPress(e) /\ len > 0) => enterNonEmpty < MaxSubmits
    /\ DpmsAsked(len, dpms) => dpmsQueries < MaxDpms
    /\ ev' = e
    /\ LoopBody(e)

NextEvent == \E e \in Events : HandleEvent(e)

\* Lines 374-382: pam_authenticate returns r.
AuthReturn ==
    /\ UNCHANGED <<cfgVars, dpmsVars, convVars>>
    /\ pc = "auth"
    /\ \E r \in {PAM_SUCCESS, PAM_AUTH_ERR} :
         /\ ret' = r
         /\ running' = RunningAfterAuth(running, r)
         /\ lastAuth' = IF r = PAM_SUCCESS THEN "success" ELSE "failure"
    /\ len' = ResetLen(len)
    /\ submitted' = <<>>
    /\ typed' = <<>>
    /\ pc' = "loop"
    /\ UNCHANGED <<passwd, ev, dont_fork, pointer_acquired,
                   keyboard_acquired, mapped, session_open, display_open,
                   exitCode, exitCause, ptrAttempts, ptrSleeps, kbdAttempts,
                   kbdSleeps, grabResult, authCalls, enterNonEmpty>>

\* Line 345: the loop ends because running is false.
LoopExit ==
    /\ UNCHANGED <<cfgVars, dpmsVars, convVars>>
    /\ pc = "loop"
    /\ \A x \in {0, 1} : ~LoopCond(running, x)
    /\ pc' = "ungrab"
    /\ UNCHANGED <<running, len, passwd, ev, ret, dont_fork, pointer_acquired,
                   keyboard_acquired, mapped, session_open, display_open,
                   exitCode, exitCause, ptrAttempts, ptrSleeps, kbdAttempts,
                   kbdSleeps, grabResult, authCalls, enterNonEmpty, lastAuth, submitted,
                   typed>>

\* Line 345: the loop ends because XNextEvent answered non-zero.
EventSourceFails ==
    /\ UNCHANGED <<cfgVars, dpmsVars, convVars>>
    /\ pc = "loop"
    /\ running
    /\ ~LoopCond(running, 1)
    /\ pc' = "ungrab"
    /\ UNCHANGED <<running, len, passwd, ev, ret, dont_fork, pointer_acquired,
                   keyboard_acquired, mapped, session_open, display_open,
                   exitCode, exitCause, ptrAttempts, ptrSleeps, kbdAttempts,
                   kbdSleeps, grabResult, authCalls, enterNonEmpty, lastAuth, submitted,
                   typed>>

\* --------------------------------------------------------------- teardown
\* Lines 399-403: XUngrabPointer (and the cursor pixmaps are freed).
UngrabPointer ==
    /\ UNCHANGED <<cfgVars, dpmsVars, convVars>>
    /\ pc = "ungrab"
    /\ pointer_acquired' = XUngrabPointer(pointer_acquired)
    /\ pc' = "destroy"
    /\ UNCHANGED <<running, len, passwd, ev, ret, dont_fork,
                   keyboard_acquired, mapped, session_open, display_open,
                   exitCode, exitCause, ptrAttempts, ptrSleeps, kbdAttempts,
                   kbdSleeps, grabResult, authCalls, enterNonEmpty, lastAuth, submitted,
                   typed>>

\* Line 404: XDestroyWindow.
DestroyWindow ==
    /\ UNCHANGED <<cfgVars, dpmsVars, convVars>>
    /\ pc = "destroy"
    /\ mapped' = FALSE
    /\ pc' = "close"
    /\ UNCHANGED <<running, len, passwd, ev, ret, dont_fork, pointer_acquired,
                   keyboard_acquired, session_open, display_open,
                   exitCode, exitCause, ptrAttempts, ptrSleeps, kbdAttempts,
                   kbdSleeps, grabResult, authCalls, enterNonEmpty, lastAuth, submitted,
                   typed>>

\* Line 405: XCloseDisplay; the server drops the grabs of a closed client.
CloseDisplay ==
    /\ UNCHANGED <<cfgVars, dpmsVars, convVars>>
    /\ pc = "close"
    /\ display_open' = FALSE
    /\ keyboard_acquired' = FALSE
    /\ pc' = "return"
    /\ UNCHANGED <<running, len, passwd, ev, ret, dont_fork, pointer_acquired,
                   mapped, session_open, exitCode, exitCause, ptrAttempts,
                   ptrSleeps, kbdAttempts, kbdSleeps, grabResult, authCalls, enterNonEmpty,
                   lastAuth, submitted, typed>>

\* Line 406: return 0.
ReturnFromMain ==
    /\ UNCHANGED <<cfgVars, dpmsVars, convVars>>
    /\ pc = "return"
    /\ Exit(0, "main_return")
    /\ UNCHANGED <<running, len, passwd, ev, ret, dont_fork, pointer_acquired,
                   keyboard_acquired, mapped, session_open, display_open,
                   ptrAttempts, ptrSleeps, kbdAttempts, kbdSleeps, grabResult, authCalls,
                   enterNonEmpty, lastAuth, submitted, typed>>

\* ---------------------------------------------------------- conv_callback
\* The message styles a PAM module sends.
MsgStyles == {PAM_PROMPT_ECHO_OFF, PAM_PROMPT_ECHO_ON, PAM_TEXT_INFO}

\* The msg arrays of n messages.
MsgArrays(n) == [0..(n - 1) -> MsgStyles]

\* The passwords conv_callback is called with: what the loop left in passwd
\* for a typed text t, terminator included.
ConvTexts == { <<97>> } \cup { MultiChars(n) : n \in 2..MaxNum }

PasswdOf(t) == [i \in 0..(PasswdSize - 1) |-> IF i < Len(t) THEN t[i + 1] ELSE 0]

\* A struct pam_response as calloc leaves it: resp is NULL (no string),
\* resp_retcode is 0.
ZeroResponse == [resp |-> <<>>, resp_retcode |-> 0]

\* A struct pam_response whose resp points to a copy of string str.
Response(str) == [resp |-> <<str>>, resp_retcode |-> 0]

\* Lines 143-144: the styles conv_callback answers.
IsPrompt(style) == style = PAM_PROMPT_ECHO_OFF \/ style = PAM_PROMPT_ECHO_ON

\* Lines 148-149: what resp[c]-> refers to.  resp is a struct pam_response **
\* and resp[c] is *(resp + c): for c = 0 it is *resp, the array, so the
\* record written is element 0; for c >= 1 it is whatever lies behind the
\* caller's pointer variable, and writing through it either faults or lands
\* somewhere outside the array.
RespTarget(c) == IF c = 0 THEN {"element0"} ELSE {"fault", "outside"}

\* pam_authenticate has been entered for the text t and calls conv_callback
\* with n messages of styles m.
InitConv ==
    /\ \E t \in ConvTexts :
         /\ passwd = PasswdOf(t)
         /\ len = Len(t)
         /\ submitted = t
         /\ typed = t
    /\ num_msg \in 0..MaxMsg
    /\ msg \in MsgArrays(num_msg)
    /\ conv_pc = "entry"
    /\ resp = NoArray
    /\ conv_c = 0
    /\ conv_ret = -1
    /\ stray = 0
    /\ pc = "auth"
    /\ running = TRUE
    /\ ev = Key(XK_Return, <<13>>)
    /\ ret = 0
    /\ dont_fork = FALSE
    /\ pointer_acquired = TRUE
    /\ keyboard_acquired = TRUE
    /\ mapped = TRUE
    /\ session_open = TRUE
    /\ display_open = TRUE
    /\ exitCode = -1
    /\ exitCause = "none"
    /\ ptrAttempts = 1
    /\ ptrSleeps = 0
    /\ kbdAttempts = 1
    /\ kbdSleeps = 0
    /\ grabResult = "both_ok"
    /\ authCalls = 1
    /\ enterNonEmpty = 1
    /\ lastAuth = "none"
    /\ argv = Cmd("n", <<>>)
    /\ env_USER = TRUE
    /\ color = <<"f", "f", "f", "f", "f", "f", NUL>>
    /\ dpms = FALSE
    /\ capable = FALSE
    /\ dpmsQueries = 0
    /\ dpmsCalls = 0

\* Lines 133-140: the test of num_msg and the calloc of the array.
ConvEntry ==
    /\ conv_pc = "entry"
    /\ IF num_msg = 0
       THEN /\ conv_ret' = 1
            /\ conv_pc' = "returned"
            /\ UNCHANGED resp
       ELSE \E ok \in BOOLEAN :
              IF ok
              THEN /\ resp' = [i \in 0..(num_msg - 1) |-> ZeroResponse]
                   /\ conv_pc' = "for"
                   /\ UNCHANGED conv_ret
              ELSE /\ conv_ret' = 1
                   /\ conv_pc' = "returned"
                   /\ UNCHANGED resp
    /\ UNCHANGED <<num_msg, msg, conv_c, stray>>
    /\ UNCHANGED <<cfgVars, dpmsVars, mainVars>>

\* Lines 142-153: one pass of the for loop, for message c.
ConvFor ==
    /\ conv_pc = "for"
    /\ conv_c < num_msg
    /\ IF ~IsPrompt(msg[conv_c])
       THEN /\ conv_c' = conv_c + 1
            /\ UNCHANGED <<conv_pc, conv_ret, resp, stray>>
       ELSE \E target \in RespTarget(conv_c), dup \in BOOLEAN :
              IF target = "fault"
              THEN /\ conv_pc' = "crashed"
                   /\ UNCHANGED <<conv_c, conv_ret, resp, stray>>
              ELSE /\ IF target = "element0"
                      THEN /\ resp' = [resp EXCEPT ![0] =
                                         IF dup THEN Response(StrDup(passwd))
                                         ELSE ZeroResponse]
                           /\ UNCHANGED stray
                      ELSE /\ stray' = stray + 1
                           /\ UNCHANGED resp
                   /\ IF dup
                      THEN /\ conv_c' = conv_c + 1
                           /\ UNCHANGED <<conv_pc, conv_ret>>
                      ELSE /\ conv_ret' = 1
                           /\ conv_pc' = "returned"
                           /\ UNCHANGED conv_c
    /\ UNCHANGED <<num_msg, msg>>
    /\ UNCHANGED <<cfgVars, dpmsVars, mainVars>>

\* Line 155: return 0 after the last message.
ConvReturn ==
    /\ conv_pc = "for"
    /\ ~(conv_c < num_msg)
    /\ conv_ret' = 0
    /\ conv_pc' = "returned"
    /\ UNCHANGED <<num_msg, msg, resp, conv_c, stray>>
    /\ UNCHANGED <<cfgVars, dpmsVars, mainVars>>

\* ------------------------------------------------------------ specification
Next ==
    \/ ParseOptions
    \/ GetUser
    \/ PamStart
    \/ OpenDisplay
    \/ Fork
    \/ InitWindow
    \/ LoadImage
    \/ GrabPointer
    \/ AfterPointer
    \/ GrabKeyboard
    \/ AfterKeyboard
    \/ NextEvent
    \/ AuthReturn
    \/ LoopExit
    \/ EventSourceFails
    \/ UngrabPointer
    \/ DestroyWindow
    \/ CloseDisplay
    \/ ReturnFromMain

Spec == Init /\ [][Next]_vars

\* The lock started with -d.
SpecDpms == InitWith(DpmsArgv) /\ [][Next]_vars

\* Start-up, grabs and teardown for every command line; no event arrives.
StartupNext ==
    \/ ParseOptions
    \/ GetUser
    \/ PamStart
    \/ OpenDisplay
    \/ Fork
    \/ InitWindow
    \/ LoadImage
    \/ GrabPointer
    \/ AfterPointer
    \/ GrabKeyboard
    \/ AfterKeyboard
    \/ LoopExit
    \/ EventSourceFails
    \/ UngrabPointer
    \/ DestroyWindow
    \/ CloseDisplay
    \/ ReturnFromMain

SpecConfig == InitWith(AllArgv) /\ [][StartupNext]_vars

\* One call of conv_callback, from its entry to its return.
ConvNext ==
    \/ ConvEntry
    \/ ConvFor
    \/ ConvReturn

SpecConv == InitConv /\ [][ConvNext]_vars

\* ------------------------------------------------------------------ claims
\* The positions of main() inside the event loop: waiting for or handling an
\* event, or inside pam_authenticate.
InLoop == (pc = "loop" /\ running) \/ pc = "auth"

AllZero(p) == \A i \in DOMAIN p : p[i] = 0

\* A key press whose looked-up text starts with a printable 7-bit character.
IsCharPress(e) ==
    /\ e.type = "KeyPress"
    /\ Len(e.chars) > 0
    /\ e.chars[1] >= 32 /\ e.chars[1] < 127

\* C1: inside the event loop, running goes from true to false only on the
\* return of a pam_authenticate call that answered PAM_SUCCESS, the call
\* having been made for an Enter key press on a non-empty buffer.
C1_UnlockOnlyByAuthSuccess ==
    [][(pc \in {"loop", "auth"} /\ running /\ ~running')
         => /\ pc = "auth"
            /\ IsEnterPress(ev)
            /\ len > 0
            /\ ret' = PAM_SUCCESS]_vars

\* C1 witness: the loop has been left unlocked after a successful Enter.
C1_Witness ==
    /\ pc = "ungrab"
    /\ ~running
    /\ lastAuth = "success"
    /\ IsEnterPress(ev)

\* C2: wherever the event loop waits for an event, handles one, or is inside
\* pam_authenticate, the pointer grab and the keyboard grab are both held.
C2_GrabsHeldInLoop == InLoop => (pointer_acquired /\ keyboard_acquired)

\* C2 witness: an authentication call is in flight with both grabs held.
C2_Witness == pc = "auth" /\ pointer_acquired /\ keyboard_acquired

\* C3: every XGrabKeyboard call is made with the pointer grab held; when the
\* pointer loop ran out of attempts no XGrabKeyboard call is ever made; and
\* the event loop runs only with the keyboard grab held.
C3_PointerBeforeKeyboard ==
    /\ [][kbdAttempts' # kbdAttempts
            => (pointer_acquired /\ grabResult = "pointer_ok")]_vars
    /\ [](grabResult = "pointer_exhausted" => kbdAttempts = 0)
    /\ [](InLoop => grabResult = "both_ok")

\* C3 witness: the pointer loop ran out and teardown starts with no
\* keyboard grab attempt made.
C3_Witness ==
    /\ pc = "ungrab"
    /\ grabResult = "pointer_exhausted"
    /\ ptrAttempts = GrabAttempts
    /\ kbdAttempts = 0

\* C4: a process that ends after a grab loop ran out of attempts ends with
\* exit code 1, and exit code 0 comes only from an unlock or a version query.
C4_GrabFailureExitsNonZero ==
    /\ (pc = "exited"
          /\ grabResult \in {"pointer_exhausted", "keyboard_exhausted"})
         => exitCode = 1
    /\ (pc = "exited" /\ exitCode = 0)
         => (exitCause = "version" \/ lastAuth = "success")

\* C5: the step that resets the buffer -- the return of pam_authenticate or
\* the handling of Escape -- leaves every byte of passwd zero.
C5_ResetZeroesBackingStore ==
    [][(\/ (pc = "auth" /\ pc' = "loop")
        \/ (pc = "loop" /\ pc' = "loop" /\ running
              /\ ev'.type = "KeyPress" /\ ev'.ksym = XK_Escape))
         => AllZero(passwd')]_vars

\* C6: in the event loop len never exceeds the size of passwd, and a
\* character key press whose bytes do not fit changes nothing but ev.
C6_NoOverflowNoPartialWrite ==
    /\ [](pc \in {"loop", "auth"} => len <= PasswdSize)
    /\ [][(pc = "loop" /\ running /\ pc' # "ungrab" /\ IsCharPress(ev')
             /\ len + Len(ev'.chars) > PasswdSize)
            => UNCHANGED <<pc, running, len, passwd, ret, dont_fork,
                           pointer_acquired, keyboard_acquired, mapped,
                           session_open, display_open, exitCode, exitCause,
                           ptrAttempts, ptrSleeps, kbdAttempts, kbdSleeps,
                           grabResult, authCalls, enterNonEmpty, lastAuth,
                           submitted, typed>>]_vars

\* C6 witness: a two byte key press arrived with one byte of room short and
\* was dropped.
C6_Witness ==
    /\ pc = "loop"
    /\ IsCharPress(ev)
    /\ len + Len(ev.chars) > PasswdSize
    /\ ~AllZero(passwd)

\* C7: the number of pam_authenticate calls equals the number of Enter key
\* presses delivered while the buffer was non-empty.
C7_OneAuthPerNonEmptyEnter == authCalls = enterNonEmpty

\* C7 witness: a second submission is in flight after an Enter on the empty
\* buffer went by without a call.
C7_Witness ==
    /\ pc = "auth"
    /\ authCalls = 2
    /\ enterNonEmpty = 2

\* C8: a PAM_SUCCESS answer sets running to false, for good, and the loop is
\* left without another event being handled; any other answer leaves running
\* true, len 0 and both grabs held, back at the head of the loop with the
\* process alive.
C8_AuthOutcome ==
    /\ [][(pc = "auth" /\ pc' # "auth" /\ ret' = PAM_SUCCESS)
            => (~running' /\ pc' = "loop")]_vars
    /\ [][(pc = "loop" /\ ~running)
            => (pc' = "ungrab" /\ ev' = ev /\ len' = len
                  /\ passwd' = passwd /\ authCalls' = authCalls)]_vars
    /\ [][~running => ~running']_vars
    /\ [][(pc = "auth" /\ pc' # "auth" /\ ret' # PAM_SUCCESS)
            => /\ running'
               /\ len' = 0
               /\ pointer_acquired' /\ keyboard_acquired'
               /\ pc' = "loop"
               /\ exitCode' = -1]_vars

\* C8 witness: two authentication failures in a row and the loop still runs.
C8_Witness ==
    /\ pc = "loop"
    /\ running
    /\ lastAuth = "failure"
    /\ authCalls = 2
    /\ len = 0

\* C9 as stated: a grab loop that runs out made GrabAttempts attempts and
\* slept GrabAttempts - 1 times.
C9_SleepsOneLessThanAttempts ==
    /\ grabResult = "pointer_exhausted"
         => (ptrAttempts = GrabAttempts /\ ptrSleeps = GrabAttempts - 1)
    /\ grabResult = "keyboard_exhausted"
         => (kbdAttempts = GrabAttempts /\ kbdSleeps = GrabAttempts - 1)

\* C9 amended: a grab loop that runs out made exactly GrabAttempts attempts
\* and slept exactly GrabAttempts times, once after every failed attempt, the
\* last included; no loop makes more attempts or sleeps than that.
C9_SleepAfterEveryFailure ==
    /\ grabResult = "pointer_exhausted"
         => (ptrAttempts = GrabAttempts /\ ptrSleeps = GrabAttempts)
    /\ grabResult = "keyboard_exhausted"
         => (kbdAttempts = GrabAttempts /\ kbdSleeps = GrabAttempts)
    /\ ptrSleeps <= ptrAttempts /\ ptrAttempts <= GrabAttempts
    /\ kbdSleeps <= kbdAttempts /\ kbdAttempts <= GrabAttempts

\* C9 witness: the keyboard loop ran out of attempts.
C9_Witness ==
    /\ grabResult = "keyboard_exhausted"
    /\ pc = "after_keyboard"
    /\ kbdAttempts = GrabAttempts

\* C10: the string handed to the backend during pam_authenticate is the text
\* entered since the last Enter, Escape or start of the lock.
C10_SubmittedIsTyped == pc = "auth" => submitted = typed

\* C10 witness: a submission is made while passwd still holds bytes of
\* earlier input beyond the terminator.
C10_Witness ==
    /\ pc = "auth"
    /\ Len(submitted) = len
    /\ \E i \in DOMAIN passwd : i > len /\ passwd[i] # 0

\* A string of exactly six hexadecimal digits.
IsSixHex(a) == Len(a) = 6 /\ \A i \in 1..6 : a[i] \in HexDigits

\* A command line or environment with a configuration error: an unknown
\* option, a colour that is not six hexadecimal digits after an optional '#',
\* or no USER.
ConfigError ==
    \/ argv.opt = "unknown"
    \/ argv.opt = "c" /\ ~IsSixHex(SkipHash(argv.arg))
    \/ argv.opt # "v" /\ ~env_USER

\* C11: a process started with a configuration error gets no further than
\* the option loop and the USER test, ends with exit code 1, and neither
\* maps the window nor tries a grab.
C11_ConfigErrorsExitEarly ==
    ConfigError
      => /\ pc \in {"getopt", "getenv", "exited"}
         /\ pc = "exited" => exitCode = 1
         /\ ptrAttempts = 0 /\ kbdAttempts = 0
         /\ ~mapped

\* A step of the loop body on an event read while DPMS is due: len is 0, -d
\* was given and the display answers that it is capable.
DpmsDueStep ==
    /\ pc = "loop" /\ running /\ pc' # "ungrab"
    /\ len = 0 /\ dpms /\ capable'

\* C12 as stated: once an event has been read with -d given and a capable
\* display, DPMSForceLevel has been called exactly once, however many events
\* followed.
C12_DpmsForcedExactlyOnce ==
    (dpms /\ capable /\ ev # NoEvent) => dpmsCalls = 1

\* C12 amended: with -d given and a capable display, DPMSForceLevel is called
\* once for every event, key press or not, that is read while len is 0, the
\* first event included, and for no event read while len is above 0.
C12_DpmsForcedAtEveryEmptyEvent ==
    [][IF DpmsDueStep THEN dpmsCalls' = dpmsCalls + 1
                      ELSE dpmsCalls' = dpmsCalls]_vars

\* C12 witness: the display was switched off a second time, after an event
\* that came when the buffer was empty again.
C12_Witness ==
    /\ pc = "loop"
    /\ dpms /\ capable
    /\ dpmsCalls = 2
    /\ authCalls > 0

\* A step of the loop body: XNextEvent returned an event and the body ran.
HandleStep == pc = "loop" /\ running /\ pc' # "ungrab"

\* A key press of one of the classes the loop is to skip: function, keypad
\* other than a digit or Enter, miscellaneous function, PF, private keypad.
IsSkippedClass(e) ==
    /\ e.type = "KeyPress"
    /\ \/ IsFunctionKey(e.ksym)
       \/ /\ IsKeypadKey(e.ksym)
          /\ e.ksym # XK_KP_Enter
          /\ ~(e.ksym >= XK_KP_0 /\ e.ksym <= XK_KP_9)
       \/ IsMiscFunctionKey(e.ksym)
       \/ IsPFKey(e.ksym)
       \/ IsPrivateKeypadKey(e.ksym)

\* C13: a key press of a skipped class, whatever bytes XLookupString gave
\* for it and whatever the state of the loop, leaves len, passwd and running
\* as they were and does not reach pam_authenticate.
C13_SkippedKeysChangeNothing ==
    [][(HandleStep /\ IsSkippedClass(ev'))
         => UNCHANGED <<len, passwd, running, pc, authCalls, submitted>>]_vars

\* C13 witness: a keypad "+" that came with the byte '+' was read while the
\* buffer held two bytes, after an earlier attempt, and the loop goes on.
C13_Witness ==
    /\ pc = "loop"
    /\ ev = Key(XK_KP_Add, <<43>>)
    /\ len = 2
    /\ authCalls > 0

\* e is a keypad digit or keypad Enter and f is the main-keyboard key of the
\* same meaning, with the same bytes from XLookupString.
IsTwin(e, f) ==
    /\ e.type = "KeyPress" /\ f.type = "KeyPress"
    /\ e.chars = f.chars
    /\ \/ /\ e.ksym >= XK_KP_0 /\ e.ksym <= XK_KP_9
          /\ f.ksym = (e.ksym - XK_KP_0) + XK_0
       \/ /\ e.ksym = XK_KP_Enter
          /\ f.ksym = XK_Return

\* C14: whatever the loop body does on a keypad digit it also does on the
\* main-keyboard digit with the same bytes, and the other way round; the same
\* for keypad Enter and Return, the call or skip of pam_authenticate included.
C14_KeypadSameAsPrimary ==
    [][HandleStep
         => \A f \in Events :
              (IsTwin(ev', f) \/ IsTwin(f, ev')) => LoopBody(f)]_vars

\* C14 witness: the keypad 5 was read and its byte is the last of the buffer.
C14_Witness ==
    /\ pc = "loop"
    /\ ev = Key(XK_KP_5, <<53>>)
    /\ len > 0
    /\ passwd[len - 1] = 53

\* C15: once XUngrabPointer has run the pointer grab is not held, in
\* particular when the process ends after the keyboard loop ran out; and
\* XUngrabPointer can run wherever teardown reaches it, the pointer grab held
\* or not.
C15_PointerReleasedBeforeExit ==
    /\ (pc \in {"destroy", "close", "return"}
          \/ (pc = "exited" /\ exitCause = "main_return"))
         => ~pointer_acquired
    /\ pc = "ungrab" => ENABLED UngrabPointer

\* C15 witness: the pointer grab succeeded, the keyboard loop ran out, the
\* process has ended and the pointer grab is gone.
C15_Witness ==
    /\ pc = "exited"
    /\ grabResult = "keyboard_exhausted"
    /\ kbdAttempts = GrabAttempts
    /\ ~pointer_acquired

\* C16: a process that ends after an unlock ends with exit code 0, both grabs
\* released and the PAM session of pam_start closed.
C16_SessionClosedBeforeExit ==
    (pc = "exited" /\ lastAuth = "success")
      => /\ exitCode = 0
         /\ ~pointer_acquired
         /\ ~keyboard_acquired
         /\ ~session_open

\* A key press that reaches the default case with printable bytes.
IsAppendPress(e) == IsCharPress(e) /\ ~IsSkippedClass(e)

\* C17 as stated: n bytes are appended at length L exactly when
\* L + n <= sizeof passwd, so that passwd can be filled to its last byte.
C17_AcceptedUpToCapacity ==
    [][(HandleStep /\ IsAppendPress(ev'))
         => IF len + Len(ev'.chars) <= PasswdSize
            THEN /\ len' = len + Len(ev'.chars)
                 /\ passwd' = Memcpy(passwd, len, ev'.chars)
            ELSE UNCHANGED <<len, passwd>>]_vars

\* C17 amended: n bytes are appended at length L exactly when
\* L + n < sizeof passwd and dropped as a whole otherwise; one byte at
\* L = sizeof passwd - 1 is dropped.
C17_AcceptedBelowCapacity ==
    [][(HandleStep /\ IsAppendPress(ev'))
         => IF len + Len(ev'.chars) < PasswdSize
            THEN /\ len' = len + Len(ev'.chars)
                 /\ passwd' = Memcpy(passwd, len, ev'.chars)
            ELSE UNCHANGED <<len, passwd>>]_vars

\* C17 witness: with one byte of room left before the end of passwd a "5"
\* was pressed and dropped: the last byte of the buffer is still the "a".
C17_Witness ==
    /\ pc = "loop"
    /\ ev = Key(XK_5, <<53>>)
    /\ len = PasswdSize - 1
    /\ passwd[len - 1] = 97

\* C19: the lock window is mapped only while the pointer grab and the
\* keyboard grab are both held.
C19_MappedOnlyWhileGrabbed ==
    mapped => (pointer_acquired /\ keyboard_acquired)

\* C20: in the event loop len is an index of passwd, sizeof passwd - 1 at
\* most, so that passwd[len] = 0 of the Enter case writes inside passwd.
C20_TerminatorInsidePasswd ==
    InLoop => (len \in DOMAIN passwd /\ len <= PasswdSize - 1)

\* C20 witness: Enter was pressed with the longest buffer there can be and
\* the terminator went into the last byte of passwd.
C20_Witness ==
    /\ pc = "auth"
    /\ IsEnterPress(ev)
    /\ len = PasswdSize - 1
    /\ passwd[len] = 0
    /\ Len(submitted) = PasswdSize - 1

\* C18: when conv_callback has returned 0, element c of the array *resp
\* holds a copy of passwd and return code 0 for every message c of style
\* echo-off or echo-on, and is as calloc left it for every other message; a
\* call with no message or a failed calloc returns non-zero; and the call
\* does return.
C18_EveryPromptAnswered ==
    /\ conv_pc # "crashed"
    /\ (conv_pc = "returned" /\ conv_ret = 0)
         => \A i \in 0..(num_msg - 1) :
              resp[i] = IF IsPrompt(msg[i]) THEN Response(StrDup(passwd))
                        ELSE ZeroResponse
    /\ (conv_pc = "returned" /\ (num_msg = 0 \/ resp = NoArray))
         => conv_ret # 0

====
